---- MODULE Spec2Model ----
(***************************************************************************)
(* Simulated-annealing Sudoku solver (src/main.py).                        *)
(*                                                                         *)
(* A run of the program is modelled from the command line down: the CSV    *)
(* file is parsed into an array, displayed, validated, and handed to       *)
(* solve, whose result is displayed and validated again.  Random draws     *)
(* (shuffle, randint, choice, rand) are nondeterministic choices.          *)
(*                                                                         *)
(* Arrays are sequences of rows, read through 0-based accessors as numpy   *)
(* indexes them.  The temperature is a float in the program; here it is a  *)
(* fixed-point number counted in units of 1/TempScale.                     *)
(***************************************************************************)
EXTENDS Integers, Sequences, FiniteSets

VARIABLES csv, grid, pc, std_vals, temperature, grid_init, fixed, iter,
          grid_new, init_cost, new_cost, accepted, outcome, solved_grid

vars == <<csv, grid, pc, std_vals, temperature, grid_init, fixed, iter,
          grid_new, init_cost, new_cost, accepted, outcome, solved_grid>>

(***************************************************************************)
(* Sizes and rates                                                         *)
(***************************************************************************)
\* side of the Sudoku: range(9)
N == 9

\* side of a block: range(0, 9, 3)
B == 3

\* inner trials per temperature level (2000 in the source, scaled down)
NUM_ITERATIONS == 2

\* grids sampled by init_temperature (100 in the source, scaled down)
NumSamples == 2

\* fixed-point resolution of the temperature: one unit is 1/TempScale
TempScale == 1

\* COOLING_RATE = 0.99 as a fraction
COOLING_RATE == <<99, 100>>

\* the floor 0.1 of "while temperature > 0.1" as a fraction
TEMP_FLOOR == <<1, 10>>

\* value of an array variable the program has not bound yet
Null == <<>>

\* value of a number variable the program has not bound yet
Unbound == 0 - 1

(***************************************************************************)
(* numpy helpers                                                           *)
(*                                                                         *)
(* A two-dimensional array is the sequence of its rows; At(g, i, j) is     *)
(* numpy's g[i, j], with indices from 0.                                   *)
(***************************************************************************)
Abs(x) == IF x < 0 THEN 0 - x ELSE x

Min(x, y) == IF x < y THEN x ELSE y

\* grid.shape[0], grid.shape[1]
Rows(g) == Len(g)

Cols(g) == Len(g[1])

At(g, i, j) == g[i + 1][j + 1]

\* the index pairs of the array
Indices(g) == (0..(Rows(g) - 1)) \X (0..(Cols(g) - 1))

\* grid[i, :] and grid[:, j]
Row(g, i) == g[i + 1]

Col(g, j) == [i \in 1..Rows(g) |-> g[i][j + 1]]

\* index pairs of grid[i:i+3, j:j+3]; slices clip to the array
BlockCells(g, i, j) == (i..Min(i + B - 1, Rows(g) - 1))
                           \X (j..Min(j + B - 1, Cols(g) - 1))

\* np.unique(a): the distinct values of a
Unique(a) == {a[x] : x \in DOMAIN a}

\* len(np.unique(a[a != 0])) == len(a[a != 0])
NoDuplicates(a) ==
    LET non_zero_values == {x \in DOMAIN a : a[x] # 0}
    IN  Cardinality({a[x] : x \in non_zero_values})
            = Cardinality(non_zero_values)

\* top-left corners of the blocks: range(0, 9, 3)
Corners == {B * k : k \in 0..((N \div B) - 1)}

(***************************************************************************)
(* Grid Validator                                                          *)
(***************************************************************************)
valid_rows(g) == \A i \in 0..(N - 1) : NoDuplicates(Row(g, i))

valid_cols(g) == \A i \in 0..(N - 1) : NoDuplicates(Col(g, i))

valid_blocks(g) ==
    \A i \in Corners : \A j \in Corners :
        NoDuplicates([p \in BlockCells(g, i, j) |-> At(g, p[1], p[2])])

valid_sudoku(g) == valid_rows(g) /\ valid_cols(g) /\ valid_blocks(g)

(***************************************************************************)
(* Cost Function                                                           *)
(***************************************************************************)
\* faulty variant of UnitCost that forgets the columns
UnitCostRowsOnly(g, i) == Abs(N - Cardinality(Unique(Row(g, i))))

\* the term one pass of the loop adds, for row i and column i
UnitCost(g, i) == Abs(N - Cardinality(Unique(Row(g, i))))
                  + Abs(N - Cardinality(Unique(Col(g, i))))

RECURSIVE CostUpTo(_, _)
\* cost after the passes i = 0 .. n - 1 of the loop
CostUpTo(g, n) == IF n = 0 THEN 0 ELSE CostUpTo(g, n - 1) + UnitCost(g, n - 1)

cost_function(g) == CostUpTo(g, N)

(***************************************************************************)
(* Grid Generator                                                          *)
(***************************************************************************)
\* g with the cells of zeros set as f says
Filled(g, zeros, f) ==
    [i \in 1..Rows(g) |->
        [j \in 1..Cols(g) |-> IF <<i - 1, j - 1>> \in zeros
                              THEN f[<<i - 1, j - 1>>] ELSE g[i][j]]]

\* faulty variant of FillBlock that draws each value afresh, so that values
\* can repeat
FillBlockRepeating(g, i, j) ==
    LET cells   == BlockCells(g, i, j)
        seen    == {At(g, p[1], p[2]) : p \in cells}
        missing == (1..N) \ seen
        zeros   == {p \in cells : At(g, p[1], p[2]) = 0}
    IN  {Filled(g, zeros, f) : f \in [zeros -> missing]}

\* the ways one block can come out of the shuffle-and-pop loop: the zeros of
\* the block take distinct values of missing_vals, the other cells stay.
\* (No way at all stands for pop() on an empty list, which a block without
\* duplicates cannot cause.)
FillBlock(g, i, j) ==
    LET cells   == BlockCells(g, i, j)
        seen    == {At(g, p[1], p[2]) : p \in cells}
        missing == (1..N) \ seen
        zeros   == {p \in cells : At(g, p[1], p[2]) = 0}
        fills   == {f \in [zeros -> missing] :
                      \A a, b \in zeros : a # b => f[a] # f[b]}
    IN  {Filled(g, zeros, f) : f \in fills}

RECURSIVE FillFrom(_, _)
\* the double loop over the block corners, row-major; k counts the blocks done
FillFrom(gs, k) ==
    IF k = (N \div B) * (N \div B) THEN gs
    ELSE FillFrom(UNION {FillBlock(g, B * (k \div (N \div B)),
                                      B * (k % (N \div B))) : g \in gs},
                  k + 1)

\* every grid generate_grid(grid) can return
generate_grid(g) == FillFrom({g}, 0)

\* np.argwhere(grid > 0)
fixed_coords(g) == {p \in Indices(g) : At(g, p[1], p[2]) > 0}

(***************************************************************************)
(* Perturbation Operator                                                   *)
(***************************************************************************)
\* faulty variant of unseen_coords that does not take the fixed cells out
unseen_coords_unfiltered(g, region, fx) ==
    {p \in BlockCells(g, B * region[1], B * region[2]) : At(g, p[1], p[2]) > 0}

\* unseen_coords after the loop over fixed_coords, as index pairs of the
\* grid: the cells of the block holding a value > 0, minus the fixed ones.
\* (The loop tests "block_coord in unseen_coords", which numpy answers with
\* "some component matches", but what it then deletes are the equal rows.)
unseen_coords(g, region, fx) ==
    {p \in BlockCells(g, B * region[1], B * region[2]) :
        At(g, p[1], p[2]) > 0} \ fx

\* block[a], block[b] = block[b], block[a], written back into the grid
SwapCells(g, a, b) ==
    LET va == At(g, a[1], a[2])
        vb == At(g, b[1], b[2])
    IN  [[g EXCEPT ![a[1] + 1][a[2] + 1] = vb] EXCEPT ![b[1] + 1][b[2] + 1] = va]

\* a faulty variant of swap_raises: a choice of three coordinates
swap_raises_below_three(g, region, fx) ==
    Cardinality(unseen_coords(g, region, fx)) < 3

\* np.random.choice(len(unseen_coords), 2, replace=False) raises ValueError
\* when fewer than two coordinates are left
swap_raises(g, region, fx) == Cardinality(unseen_coords(g, region, fx)) < 2

\* every grid swap_vals can leave in its first argument
swap_vals(g, region, fx) ==
    LET unseen == unseen_coords(g, region, fx)
    IN  {SwapCells(g, q[1], q[2]) : q \in {r \in unseen \X unseen : r[1] # r[2]}}

(***************************************************************************)
(* Temperature                                                             *)
(***************************************************************************)
RECURSIVE SeqSum(_)
SeqSum(s) == IF s = <<>> THEN 0 ELSE Head(s) + SeqSum(Tail(s))

SeqMax(s) == IF s = <<>> THEN 0
             ELSE CHOOSE m \in {s[k] : k \in DOMAIN s} :
                      \A k \in DOMAIN s : s[k] <= m

\* the least r in 0..top with r / scale >= sqrt(num) / n
RootUp(num, n, scale, top) ==
    CHOOSE r \in 0..top :
        /\ r * r * n * n >= num * scale * scale
        /\ r > 0 => (r - 1) * (r - 1) * n * n < num * scale * scale

\* np.std(std_vals) in temperature units, rounded up to the resolution (so
\* that only a deviation of 0 gives 0):
\* sqrt(mean(x^2) - mean(x)^2) = sqrt(n * sum(x^2) - sum(x)^2) / n
Std(s) ==
    LET n   == Len(s)
        sq  == [k \in DOMAIN s |-> s[k] * s[k]]
        num == n * SeqSum(sq) - SeqSum(s) * SeqSum(s)
    IN  RootUp(num, n, TempScale, SeqMax(s) * TempScale)

\* temperature > 0.1
AboveFloor(t) == t * TEMP_FLOOR[2] > TEMP_FLOOR[1] * TempScale

\* faulty variant of Cooled that divides by the rate
CooledByDivision(t) == (t * COOLING_RATE[2]) \div COOLING_RATE[1]

\* temperature *= COOLING_RATE, rounded down to the resolution
Cooled(t) == (t * COOLING_RATE[1]) \div COOLING_RATE[2]

(***************************************************************************)
(* Input files                                                             *)
(***************************************************************************)
\* a solved Sudoku
Solved == << <<5, 3, 4, 6, 7, 8, 9, 1, 2>>,
             <<6, 7, 2, 1, 9, 5, 3, 4, 8>>,
             <<1, 9, 8, 3, 4, 2, 5, 6, 7>>,
             <<8, 5, 9, 7, 6, 1, 4, 2, 3>>,
             <<4, 2, 6, 8, 5, 3, 7, 9, 1>>,
             <<7, 1, 3, 9, 2, 4, 8, 5, 6>>,
             <<9, 6, 1, 5, 3, 7, 2, 8, 4>>,
             <<2, 8, 7, 4, 1, 9, 6, 3, 5>>,
             <<3, 4, 5, 2, 8, 6, 1, 7, 9>> >>

\* rows with the entries at the given 0-based positions replaced by v
WithValue(rows, cells, v) ==
    [i \in DOMAIN rows |->
        [j \in DOMAIN rows[i] |-> IF <<i - 1, j - 1>> \in cells THEN v
                                  ELSE rows[i][j]]]

Blank(rows, cells) == WithValue(rows, cells, 0)

\* two cells in each of four blocks
FourPairs == {<<0, 1>>, <<0, 2>>, <<0, 3>>, <<0, 5>>,
              <<4, 1>>, <<5, 1>>, <<4, 4>>, <<5, 4>>}

\* two cells in every block
PairPerBlock == FourPairs \cup {<<2, 6>>, <<2, 7>>, <<5, 7>>, <<5, 8>>,
                                <<8, 1>>, <<8, 2>>, <<8, 3>>, <<8, 5>>,
                                <<7, 6>>, <<7, 8>>}

\* the text of the numbers 0 .. 10
Numerals == <<"0", "1", "2", "3", "4", "5", "6", "7", "8", "9", "10">>

\* the CSV file holding the given numbers: rows of text fields
Written(rows) ==
    [i \in DOMAIN rows |-> [j \in DOMAIN rows[i] |-> Numerals[rows[i][j] + 1]]]

\* well-formed puzzles: 9 rows of 9 fields in 0..9, no duplicate in a unit
Puzzles ==
    { Solved,
      Blank(Solved, {<<4, 4>>}),
      Blank(Solved, {<<0, 0>>, <<0, 1>>}),
      Blank(Solved, {<<0, 0>>, <<1, 1>>, <<2, 2>>, <<4, 4>>, <<5, 5>>}),
      Blank(Solved, FourPairs) }

\* a puzzle in which every block leaves two cells open
OpenPuzzle == Blank(Solved, PairPerBlock)

\* files the program should refuse
BadFiles ==
    { Written(WithValue(Solved, {<<0, 1>>}, 5)),             \* two 5s in row 0
      Written(WithValue(Blank(Solved, {<<1, 1>>}), {<<0, 0>>}, 7)),
                                                             \* 7s in a block
      Written(SubSeq(Solved, 1, 8)),                         \* 8 rows
      Written(Solved \o << <<0, 0, 0, 0, 0, 0, 0, 0, 0>> >>),\* 10 rows
      Written([i \in 1..9 |-> SubSeq(Solved[i], 1, 8)]),     \* 8 columns
      Written(WithValue(Solved, {<<0, 0>>}, 10)),            \* a field of 10
      Written([Solved EXCEPT ![9] = <<3, 4, 5>>]),           \* a short row
      [Written(Solved) EXCEPT ![1][1] = "x"] }               \* not a number

Files == {Written(p) : p \in Puzzles} \cup BadFiles

AllFiles == Files \cup {Written(OpenPuzzle)}

(***************************************************************************)
(* The run                                                                 *)
(***************************************************************************)
\* the program starts on one of the given files
Start(files) ==
    /\ csv \in files
    /\ pc = "parse_csv"
    /\ grid = Null
    /\ std_vals = <<>>
    /\ temperature = Unbound
    /\ grid_init = Null
    /\ fixed = {}
    /\ iter = 0
    /\ grid_new = Null
    /\ init_cost = Unbound
    /\ new_cost = Unbound
    /\ accepted = FALSE
    /\ outcome = "none"
    /\ solved_grid = Null

Init == Start(Files)

InitAll == Start(AllFiles)

\* int(field) for the fields that are numerals
IsNumeral(field) == \E k \in DOMAIN Numerals : Numerals[k] = field

ToInt(field) == (CHOOSE k \in DOMAIN Numerals : Numerals[k] = field) - 1

\* np.array(grid, dtype=int) raises ValueError on rows of different lengths
\* and on a field that is no integer
array_raises(rows) ==
    \/ \E i \in DOMAIN rows : Len(rows[i]) # Len(rows[1])
    \/ \E i \in DOMAIN rows : \E j \in DOMAIN rows[i] : ~IsNumeral(rows[i][j])

\* the array np.array builds from the rows the reader yields
parse_csv(rows) ==
    [i \in DOMAIN rows |-> [j \in DOMAIN rows[i] |-> ToInt(rows[i][j])]]

ParseCsv ==
    /\ pc = "parse_csv"
    /\ ~array_raises(csv)
    /\ grid' = parse_csv(csv)
    /\ pc' = "display_grid"
    /\ UNCHANGED <<csv, std_vals, temperature, grid_init, fixed, iter,
                   grid_new, init_cost, new_cost, accepted, outcome, solved_grid>>

ParseCsvRaises ==
    /\ pc = "parse_csv"
    /\ array_raises(csv)
    /\ pc' = "ValueError"
    /\ UNCHANGED <<csv, grid, std_vals, temperature, grid_init, fixed, iter,
                   grid_new, init_cost, new_cost, accepted, outcome, solved_grid>>

\* display_grid reads grid[i, j] for i, j in range(9)
display_grid_raises(g) == \E i, j \in 0..(N - 1) : <<i, j>> \notin Indices(g)

DisplayInput ==
    /\ pc = "display_grid"
    /\ ~display_grid_raises(grid)
    /\ pc' = "assert_valid"
    /\ UNCHANGED <<csv, grid, std_vals, temperature, grid_init, fixed, iter,
                   grid_new, init_cost, new_cost, accepted, outcome, solved_grid>>

DisplayInputRaises ==
    /\ pc = "display_grid"
    /\ display_grid_raises(grid)
    /\ pc' = "IndexError"
    /\ UNCHANGED <<csv, grid, std_vals, temperature, grid_init, fixed, iter,
                   grid_new, init_cost, new_cost, accepted, outcome, solved_grid>>

\* assert valid_sudoku(grid), 'Invalid Input Sudoku'
AssertInput ==
    /\ pc = "assert_valid"
    /\ valid_sudoku(grid)
    /\ pc' = "init_temperature"
    /\ UNCHANGED <<csv, grid, std_vals, temperature, grid_init, fixed, iter,
                   grid_new, init_cost, new_cost, accepted, outcome, solved_grid>>

AssertInputFails ==
    /\ pc = "assert_valid"
    /\ ~valid_sudoku(grid)
    /\ pc' = "AssertionError"
    /\ UNCHANGED <<csv, grid, std_vals, temperature, grid_init, fixed, iter,
                   grid_new, init_cost, new_cost, accepted, outcome, solved_grid>>

\* one pass of the loop of init_temperature
InitTemperatureSample ==
    /\ pc = "init_temperature"
    /\ Len(std_vals) < NumSamples
    /\ \E g \in generate_grid(grid) :
           std_vals' = Append(std_vals, cost_function(g))
    /\ UNCHANGED <<csv, grid, pc, temperature, grid_init, fixed, iter,
                   grid_new, init_cost, new_cost, accepted, outcome, solved_grid>>

\* temperature = init_temperature(grid); the local std_vals is gone
InitTemperatureReturn ==
    /\ pc = "init_temperature"
    /\ Len(std_vals) = NumSamples
    /\ temperature' = Std(std_vals)
    /\ std_vals' = <<>>
    /\ pc' = "generate_grid"
    /\ UNCHANGED <<csv, grid, grid_init, fixed, iter,
                   grid_new, init_cost, new_cost, accepted, outcome, solved_grid>>

\* grid_init = generate_grid(grid); fixed = fixed_coords(grid)
GenerateInit ==
    /\ pc = "generate_grid"
    /\ grid_init' \in generate_grid(grid)
    /\ fixed' = fixed_coords(grid)
    /\ pc' = "while"
    /\ UNCHANGED <<csv, grid, std_vals, temperature, iter,
                   grid_new, init_cost, new_cost, accepted, outcome, solved_grid>>

\* while temperature > 0.1: enter the for loop
WhileEnter ==
    /\ pc = "while"
    /\ AboveFloor(temperature)
    /\ iter' = 0
    /\ pc' = "for"
    /\ UNCHANGED <<csv, grid, std_vals, temperature, grid_init, fixed,
                   grid_new, init_cost, new_cost, accepted, outcome, solved_grid>>

\* the loop is over: return grid_init
ReturnExhausted ==
    /\ pc = "while"
    /\ ~AboveFloor(temperature)
    /\ solved_grid' = grid_init
    /\ outcome' = "EXHAUSTED"
    /\ pc' = "display_solved"
    /\ UNCHANGED <<csv, grid, std_vals, temperature, grid_init, fixed, iter,
                   grid_new, init_cost, new_cost, accepted>>

\* np.random.randint(0, 3, 2)
Regions == (0..((N \div B) - 1)) \X (0..((N \div B) - 1))

\* faulty variant of Propose that perturbs grid_init itself: grid_new is an
\* alias of it, not a copy
ProposeInPlace ==
    /\ pc = "for"
    /\ iter < NUM_ITERATIONS
    /\ \E region \in Regions :
          /\ ~swap_raises(grid_init, region, fixed)
          /\ grid_new' \in swap_vals(grid_init, region, fixed)
    /\ grid_init' = grid_new'
    /\ init_cost' = cost_function(grid_init')
    /\ new_cost' = cost_function(grid_new')
    /\ pc' = "accept"
    /\ UNCHANGED <<csv, grid, std_vals, temperature, fixed, iter,
                   accepted, outcome, solved_grid>>

\* one trial up to the draw of rand: region drawn, grid_new = grid_init.copy(),
\* swap_vals(grid_new, region, fixed), the two costs computed
Propose ==
    /\ pc = "for"
    /\ iter < NUM_ITERATIONS
    /\ \E region \in Regions :
          /\ ~swap_raises(grid_init, region, fixed)
          /\ grid_new' \in swap_vals(grid_init, region, fixed)
    /\ init_cost' = cost_function(grid_init)
    /\ new_cost' = cost_function(grid_new')
    /\ pc' = "accept"
    /\ UNCHANGED <<csv, grid, std_vals, temperature, grid_init, fixed, iter,
                   accepted, outcome, solved_grid>>

\* swap_vals raises ValueError out of solve
ProposeRaises ==
    /\ pc = "for"
    /\ iter < NUM_ITERATIONS
    /\ \E region \in Regions : swap_raises(grid_init, region, fixed)
    /\ pc' = "ValueError"
    /\ UNCHANGED <<csv, grid, std_vals, temperature, grid_init, fixed, iter,
                   grid_new, init_cost, new_cost, accepted, outcome,
                   solved_grid>>

\* the outcomes of "acceptance_probability > np.random.rand()": exp(d / T)
\* with d >= 0 is at least 1 and beats every draw of [0, 1); with d < 0 it
\* lies strictly between 0 and 1 and the draw decides
Acceptable(old, new) == IF new <= old THEN {TRUE} ELSE {TRUE, FALSE}

\* if acceptance_probability > rand: grid_init = grid_new, and new_cost # 0.
\* grid_new and the costs are rebound before they are read again.
Accept ==
    /\ pc = "accept"
    /\ TRUE \in Acceptable(init_cost, new_cost)
    /\ new_cost # 0
    /\ accepted' = TRUE
    /\ grid_init' = grid_new
    /\ grid_new' = Null
    /\ init_cost' = Unbound
    /\ new_cost' = Unbound
    /\ iter' = iter + 1
    /\ pc' = "for"
    /\ UNCHANGED <<csv, grid, std_vals, temperature, fixed, outcome,
                   solved_grid>>

\* if new_cost == 0: return grid_new
AcceptSolved ==
    /\ pc = "accept"
    /\ TRUE \in Acceptable(init_cost, new_cost)
    /\ new_cost = 0
    /\ accepted' = TRUE
    /\ grid_init' = grid_new
    /\ solved_grid' = grid_new
    /\ outcome' = "SOLVED"
    /\ pc' = "display_solved"
    /\ UNCHANGED <<csv, grid, std_vals, temperature, fixed, iter, grid_new,
                   init_cost, new_cost>>

\* the draw is at least the acceptance probability: grid_init stays
Reject ==
    /\ pc = "accept"
    /\ FALSE \in Acceptable(init_cost, new_cost)
    /\ accepted' = FALSE
    /\ grid_new' = Null
    /\ init_cost' = Unbound
    /\ new_cost' = Unbound
    /\ iter' = iter + 1
    /\ pc' = "for"
    /\ UNCHANGED <<csv, grid, std_vals, temperature, grid_init, fixed,
                   outcome, solved_grid>>

\* the for loop is over: temperature *= COOLING_RATE
Cool ==
    /\ pc = "for"
    /\ iter = NUM_ITERATIONS
    /\ temperature' = Cooled(temperature)
    /\ pc' = "while"
    /\ UNCHANGED <<csv, grid, std_vals, grid_init, fixed, iter,
                   grid_new, init_cost, new_cost, accepted, outcome, solved_grid>>

\* display_grid(solved_grid)
DisplaySolved ==
    /\ pc = "display_solved"
    /\ pc' = "assert_solved"
    /\ UNCHANGED <<csv, grid, std_vals, temperature, grid_init, fixed, iter,
                   grid_new, init_cost, new_cost, accepted, outcome, solved_grid>>

\* assert valid_sudoku(solved_grid), 'Invalid Solved Sudoku'
AssertSolved ==
    /\ pc = "assert_solved"
    /\ valid_sudoku(solved_grid)
    /\ pc' = "exit"
    /\ UNCHANGED <<csv, grid, std_vals, temperature, grid_init, fixed, iter,
                   grid_new, init_cost, new_cost, accepted, outcome, solved_grid>>

AssertSolvedFails ==
    /\ pc = "assert_solved"
    /\ ~valid_sudoku(solved_grid)
    /\ pc' = "AssertionError"
    /\ UNCHANGED <<csv, grid, std_vals, temperature, grid_init, fixed, iter,
                   grid_new, init_cost, new_cost, accepted, outcome, solved_grid>>

Next ==
    \/ ParseCsv
    \/ ParseCsvRaises
    \/ DisplayInput
    \/ DisplayInputRaises
    \/ AssertInput
    \/ AssertInputFails
    \/ InitTemperatureSample
    \/ InitTemperatureReturn
    \/ GenerateInit
    \/ WhileEnter
    \/ ReturnExhausted
    \/ Propose
    \/ ProposeRaises
    \/ Accept
    \/ AcceptSolved
    \/ Reject
    \/ Cool
    \/ DisplaySolved
    \/ AssertSolved
    \/ AssertSolvedFails

Spec == Init /\ [][Next]_vars

\* the steps of the loops of solve
Anneal ==
    \/ WhileEnter
    \/ ReturnExhausted
    \/ Propose
    \/ ProposeRaises
    \/ Accept
    \/ AcceptSolved
    \/ Reject
    \/ Cool

\* the interpreter runs the single thread on: a loop step that can be taken
\* is taken
FairSpec == InitAll /\ [][Next]_vars /\ WF_vars(Anneal)

(***************************************************************************)
(* Vocabulary of the properties                                            *)
(***************************************************************************)
\* a Grid of the data model: 9 rows of 9 integers in 0..9
WellFormed(g) ==
    /\ Rows(g) = N
    /\ \A i \in 1..Rows(g) : Len(g[i]) = N
    /\ \A i \in 1..Rows(g) : \A j \in 1..N : g[i][j] \in 0..N

\* the parsed input is a puzzle that passes the Validator
ValidPuzzle == grid # Null /\ WellFormed(grid) /\ valid_sudoku(grid)

\* g holds the digit of the puzzle wherever the puzzle has one
FixedKept(g) ==
    \A p \in fixed_coords(grid) : At(g, p[1], p[2]) = At(grid, p[1], p[2])

\* every block of g holds each of 1..9 (hence once, and no 0)
BlockValid(g) ==
    \A i \in Corners : \A j \in Corners :
        {At(g, p[1], p[2]) : p \in BlockCells(g, i, j)} = 1..N

\* g has no empty cell
Full(g) == \A i \in 1..Rows(g) : \A j \in 1..Cols(g) : g[i][j] # 0

\* every block has two cells or more that the puzzle leaves open
EveryBlockSwappable ==
    \A region \in Regions :
        Cardinality(BlockCells(grid, B * region[1], B * region[2])
                        \ fixed_coords(grid)) >= 2

\* control points from the first statement of solve to the normal exit
SolvePcs == {"init_temperature", "generate_grid", "while", "for", "accept",
             "display_solved", "assert_solved", "exit"}

\* control points at which the temperature is bound
TempPcs == SolvePcs \ {"init_temperature"}

\* an exception left the program
Failed == pc \in {"ValueError", "IndexError", "AssertionError"}

(***************************************************************************)
(* C1: on a puzzle that passes the Validator, every grid generate_grid can *)
(* return, the current candidate, every proposed copy and the returned     *)
(* grid hold the puzzle's digit at every position the puzzle fixes.        *)
(***************************************************************************)
C1_FixedCellsKept ==
    ValidPuzzle =>
        /\ pc = "init_temperature" => \A g \in generate_grid(grid) : FixedKept(g)
        /\ grid_init # Null => FixedKept(grid_init)
        /\ grid_new # Null => FixedKept(grid_new)
        /\ solved_grid # Null => FixedKept(solved_grid)

\* a proposal was accepted in a puzzle with fixed cells in the swapped block
C1_Witness ==
    /\ ValidPuzzle
    /\ pc = "for"
    /\ accepted
    /\ grid_init # grid
    /\ fixed # {}

(***************************************************************************)
(* C2: on a puzzle that passes the Validator, every grid generate_grid can *)
(* return, the current candidate, every proposed copy and the returned     *)
(* grid hold each digit 1..9 exactly once in each block, and no 0.         *)
(***************************************************************************)
C2_BlockValid ==
    ValidPuzzle =>
        /\ pc = "init_temperature" => \A g \in generate_grid(grid) : BlockValid(g)
        /\ grid_init # Null => BlockValid(grid_init)
        /\ grid_new # Null => BlockValid(grid_new)
        /\ solved_grid # Null => BlockValid(solved_grid)

\* a copy has been perturbed
C2_Witness == ValidPuzzle /\ pc = "accept" /\ grid_new # grid_init

(***************************************************************************)
(* C3: the grid solve returns for a puzzle that passes the Validator is    *)
(* accepted by valid_sudoku exactly if its cost is 0; the run exits        *)
(* normally only with a grid of cost 0, a grid returned from the           *)
(* zero-cost exit passes the final assertion, and the final assertion      *)
(* fails exactly on a grid of non-zero cost.                               *)
(***************************************************************************)
C3_ValidIffZeroCost ==
    (ValidPuzzle /\ solved_grid # Null) =>
        /\ valid_sudoku(solved_grid) <=> cost_function(solved_grid) = 0
        /\ pc = "exit" => cost_function(solved_grid) = 0
        /\ pc = "AssertionError" => cost_function(solved_grid) # 0
        /\ outcome = "SOLVED" => pc # "AssertionError" /\ Full(solved_grid)

\* both ends: a solved run has exited, or a non-converged one has failed
C3_Witness ==
    /\ ValidPuzzle
    /\ \/ pc = "exit" /\ outcome = "SOLVED" /\ ~Full(grid)
       \/ pc = "AssertionError" /\ outcome = "EXHAUSTED"

(***************************************************************************)
(* C4: drawing a block with fewer than two non-fixed cells does not make   *)
(* the solver fail: on a puzzle that passes the Validator no exception     *)
(* leaves solve.                                                           *)
(***************************************************************************)
C4_NoFailureOnDegenerateBlock ==
    (ValidPuzzle /\ grid_init # Null) => pc # "ValueError"

(***************************************************************************)
(* C5: for a puzzle without empty cell that passes the Validator, solve    *)
(* returns through the zero-cost exit (SOLVED) a grid equal to the input.  *)
(***************************************************************************)
C5_FullGridSolved ==
    (ValidPuzzle /\ Full(grid) /\ outcome # "none") =>
        outcome = "SOLVED" /\ solved_grid = grid

(***************************************************************************)
(* C6: solving starts only on an input of 9 rows of 9 integers in 0..9     *)
(* that passes the Validator.                                              *)
(***************************************************************************)
C6_OnlyWellFormedSolved == pc \in SolvePcs => ValidPuzzle

(***************************************************************************)
(* C7: the solver is never inside a trial, and never returns from the      *)
(* temperature-floor exit (EXHAUSTED), with a current candidate of cost 0. *)
(***************************************************************************)
C7_ZeroCostLeadsToSolved ==
    (ValidPuzzle /\ grid_init # Null /\ cost_function(grid_init) = 0) =>
        pc # "accept" /\ outcome # "EXHAUSTED"

(***************************************************************************)
(* C8: a trial perturbs a copy: proposing leaves the current candidate as  *)
(* it was, a rejected proposal leaves it as it was, an accepted one makes  *)
(* it the perturbed copy; the parsed puzzle is never modified.             *)
(***************************************************************************)
CopyOnProposeStep ==
    /\ pc = "for" => grid_init' = grid_init
    /\ (pc = "accept" /\ accepted') => grid_init' = grid_new
    /\ (pc = "accept" /\ ~accepted') => grid_init' = grid_init
    /\ grid # Null => grid' = grid

C8_CopyOnPropose == [][CopyOnProposeStep]_vars

\* a proposal that differs from the current candidate was rejected
C8_Witness == ValidPuzzle /\ pc = "for" /\ iter > 0 /\ ~accepted

(***************************************************************************)
(* C9 as stated: the temperature is a positive value; in particular the   *)
(* value computed at the start of solve is positive.                       *)
(***************************************************************************)
C9_TemperaturePositive ==
    (ValidPuzzle /\ pc = "generate_grid") => temperature > 0

(***************************************************************************)
(* C9 as amended: the temperature is never negative and never increases;   *)
(* it changes only at the end of a batch of NUM_ITERATIONS trials, where   *)
(* it becomes 0.99 times its value (rounded down to the resolution), and   *)
(* a trial starts only while it exceeds the floor 0.1.                     *)
(***************************************************************************)
TemperatureStep ==
    pc \in TempPcs =>
        /\ temperature >= 0
        /\ temperature' <= temperature
        /\ (temperature' # temperature) => (pc = "for" /\ pc' = "while")
        /\ (pc = "for" /\ pc' = "while") =>
              /\ iter = NUM_ITERATIONS
              /\ temperature' * COOLING_RATE[2] <= temperature * COOLING_RATE[1]
              /\ temperature * COOLING_RATE[1] < (temperature' + 1) * COOLING_RATE[2]
        /\ (pc' = "accept") =>
              (temperature * TEMP_FLOOR[2] > TEMP_FLOOR[1] * TempScale)

C9_TemperatureSchedule == [][TemperatureStep]_vars

\* a batch has completed and the temperature has been cooled
C9_Witness == pc = "while" /\ iter = NUM_ITERATIONS /\ temperature > 0

(***************************************************************************)
(* C10: on a puzzle that passes the Validator and leaves two or more cells *)
(* open in every block, solve eventually returns, from the zero-cost exit  *)
(* or from the temperature-floor exit, and no exception leaves it.         *)
(***************************************************************************)
C10_Terminates ==
    /\ (pc = "while" /\ ValidPuzzle /\ EveryBlockSwappable)
           ~> (outcome \in {"SOLVED", "EXHAUSTED"})
    /\ [](Failed => (outcome = "EXHAUSTED" \/ ~(ValidPuzzle /\ EveryBlockSwappable)))

\* such a run has gone through a whole cooling schedule
C10_Witness ==
    /\ ValidPuzzle
    /\ EveryBlockSwappable
    /\ outcome = "EXHAUSTED"
    /\ iter = NUM_ITERATIONS

====
